---- MODULE Spec2Model ----
(***************************************************************************)
(* A model of the Business Intelligence chatbot: the Streamlit script      *)
(* main.py (session state, login, upload/process, chatbot, chart choice,   *)
(* preprocessing) and the database module realdatabase.py (engine          *)
(* selection, table creation, storage, deletion).                          *)
(*                                                                         *)
(* Text is held as a sequence of one-character strings, so that splitting, *)
(* joining, substring tests and SQL LIKE matching are computed character   *)
(* by character as Python and MySQL compute them.                          *)
(***************************************************************************)
EXTENDS Integers, Sequences, FiniteSets, TLC

VARIABLES
    tables,      \* the database: the set of names of the tables that exist
    dbCall       \* the last database-module call: its arguments, result and the tables before it

\* st.session_state (main.py 21-37) and what the last run of the script did
VARIABLES
    user_authenticated, user_id, user_identifier, processed_df, user_tables,
    existing_table, new_user_id, data_stored, current_dataset,
    gemini_key,  \* 'GEMINI_API_KEY' in st.secrets
    rerun,       \* st.rerun() was called: the script runs again before any click
    run,         \* the last run of the script: whether show_chatbot_interface was reached
    persisted,   \* since the login: store_user_data returned True, or the login verified a table
    stored,      \* since the login: <<user_id, table>> for every table store_user_data
                 \* created or appended to
    logins       \* how many logins have succeeded

\* main.py 43-154: the preprocessing functions
VARIABLES
    raw_df,      \* the table handed to the preprocessing function
    pipeline,    \* complete_preprocessing_pipeline's last call, stage by stage
    hybrid       \* hybrid_preprocessing's last call

\* main.py 319-419: the automatic chart choice
VARIABLES
    results_df,  \* the query result: its columns (name, numeric or not) and whether it has rows
    user_question,
    axes,        \* auto_detect_axes' last result
    charts       \* display_results_with_auto_chart's last call: the calls of
                 \* create_and_display_chart it made, in order

\* realdatabase.py 8-100: get_engine
VARIABLES
    secrets_url, \* "AIVEN_DATABASE_URL" in st.secrets
    ca_exists,   \* os.path.exists of each CA candidate
    connects,    \* whether the test query of each kind of connection succeeds
    engine_pc,   \* where the call of get_engine stands
    attempts,    \* the connections tried so far, in order
    engine       \* what get_engine returned

\* realdatabase.py 117-213: create_table_with_pk and store_user_data
VARIABLES
    database,    \* the tables that exist, with their content: name -> [columns, rows]
    store_df,    \* df: the dataset handed to create_table_with_pk / store_user_data
    createCalls, \* the calls of create_table_with_pk so far, in order
    storeCall    \* store_user_data's last call

\* realdatabase.py 216-230 and main.py 422-460: execute_sql_query and Analyze
VARIABLES
    queryCall,   \* execute_sql_query's last call
    chat         \* what the last click on Analyze showed

\* main.py 549-566: new accounts, each created in a session of its own
VARIABLES
    typed,       \* the <<name, email>> each user types
    accounts     \* what authenticate_user made of each, once it has run

dbVars == <<tables, dbCall>>
storeVars == <<database, store_df, createCalls, storeCall>>
queryVars == <<queryCall, chat>>
accountVars == <<typed, accounts>>
prepVars == <<raw_df, pipeline, hybrid>>
chartVars == <<results_df, user_question, axes, charts>>
engineVars == <<secrets_url, ca_exists, connects, engine_pc, attempts, engine>>
sessionVars == <<user_authenticated, user_id, user_identifier, processed_df, user_tables,
                 existing_table, new_user_id, data_stored, current_dataset>>
appVars == <<sessionVars, gemini_key, rerun, run, persisted, stored, logins>>
moreVars == <<storeVars, queryVars, accountVars>>
vars == <<dbVars, appVars, prepVars, chartVars, engineVars, moreVars>>
notDb == <<appVars, prepVars, chartVars, engineVars, moreVars>>
notApp == <<prepVars, chartVars, engineVars, moreVars>>
notPrep == <<dbVars, appVars, chartVars, engineVars, moreVars>>
notChart == <<dbVars, appVars, prepVars, engineVars, moreVars>>
notEngine == <<dbVars, appVars, prepVars, chartVars, moreVars>>

----------------------------------------------------------------------------
(* Bounds of the model *)

MaxNameLen == 3      \* longest table name / user id drawn as an input
MaxTables == 2       \* most tables an initial database holds
MaxIdLen == 2        \* longest user id passed to a database-module call
MaxLogins == 2       \* successful logins in one behaviour; users who create an ID
MaxRows == 3         \* freely chosen rows of an uploaded table
MaxStmts == 2        \* statements of a generated preprocessing program
MaxCols == 2         \* columns of a query result or of a dataset to store
MaxCalls == 2        \* calls of create_table_with_pk in a row
MaxRowCount == 1001  \* most rows of a dataset handed to store_user_data

----------------------------------------------------------------------------
(* Text helpers *)

\* Python's None: a one-element tuple, so that it compares with every text
\* (a tuple of one-character strings) and is none of them
NoValue == <<"None">>

\* Python's None where a DataFrame may stand: a record, so that it compares
\* with every DataFrame and is none of them
NoFrame == [none |-> TRUE]

\* an uploaded or processed table whose content the script does not look at
SomeTable == <<"DataFrame">>

Underscore == "_"
Percent == "%"

\* all texts over alphabet A of length 0..n
Texts(A, n) == UNION {[1..k -> A] : k \in 0..n}

\* the subsets of S with at most n elements
RECURSIVE SetsUpTo(_, _)
SetsUpTo(S, n) ==
    IF n = 0 THEN {{}}
    ELSE LET P == SetsUpTo(S, n - 1) IN P \cup {T \cup {x} : T \in P, x \in S}

\* Python: prefix-test s.startswith(p)
StartsWith(s, p) == Len(p) <= Len(s) /\ SubSeq(s, 1, Len(p)) = p

\* Python: sub in s
Contains(s, sub) ==
    \E i \in 0..(Len(s) - Len(sub)) : SubSeq(s, i + 1, i + Len(sub)) = sub

\* Python: sep in s, for a one-character separator
HasChar(s, c) == \E i \in 1..Len(s) : s[i] = c

\* Python: s.split(sep) for a one-character separator: the pieces between
\* the separators, empty pieces included
RECURSIVE Split(_, _)
Split(s, sep) ==
    IF ~HasChar(s, sep) THEN <<s>>
    ELSE LET i == CHOOSE k \in 1..Len(s) : s[k] = sep /\ \A j \in 1..(k - 1) : s[j] # sep
         IN <<SubSeq(s, 1, i - 1)>> \o Split(SubSeq(s, i + 1, Len(s)), sep)

\* Python: sep.join(parts)
RECURSIVE Join(_, _)
Join(parts, sep) ==
    IF Len(parts) = 0 THEN <<>>
    ELSE IF Len(parts) = 1 THEN parts[1]
    ELSE parts[1] \o <<sep>> \o Join(Tail(parts), sep)

\* MySQL: name LIKE pattern, where _ matches any one character and % any
\* run of characters (no escape character occurs in the texts modelled)
RECURSIVE Like(_, _)
Like(name, pattern) ==
    IF Len(pattern) = 0 THEN Len(name) = 0
    ELSE IF Head(pattern) = Percent
         THEN \E k \in 0..Len(name) : Like(SubSeq(name, k + 1, Len(name)), Tail(pattern))
    ELSE IF Len(name) = 0 THEN FALSE
    ELSE IF Head(pattern) = Underscore THEN Like(Tail(name), Tail(pattern))
    ELSE Head(name) = Head(pattern) /\ Like(Tail(name), Tail(pattern))

----------------------------------------------------------------------------
(* realdatabase.py / main.py: functions over the set of tables *)

\* f"{user_hash}_{table_name}"
FullTableName(user_hash, table_name) == user_hash \o <<Underscore>> \o table_name

\* main.py verify_user_table_exists: SHOW TABLES LIKE '<full name>' returned a
\* row; False when no engine is available or the query fails (up = FALSE)
VerifyUserTableExists(tbls, user_hash, table_name, up) ==
    up /\ \E t \in tbls : Like(t, FullTableName(user_hash, table_name))

\* realdatabase.py delete_all_user_tables: pattern = f"{user_id}_%"
DeletePattern(uid) == uid \o <<Underscore, Percent>>

\* the rows of SELECT TABLE_NAME ... WHERE table_name LIKE :p
DeleteRows(tbls, uid) == {t \in tbls : Like(t, DeletePattern(uid))}

----------------------------------------------------------------------------
(* Database-module calls on an arbitrary database *)

NameAlphabet == {"a", "b", Underscore}
Names == Texts(NameAlphabet, MaxNameLen)

\* the session state of a fresh session: the defaults of main.py 21-34
SessionDefaults ==
    /\ user_authenticated = FALSE
    /\ user_id = NoValue
    /\ user_identifier = NoValue
    /\ processed_df = NoValue
    /\ user_tables = <<>>
    /\ existing_table = NoValue
    /\ new_user_id = NoValue
    /\ data_stored = FALSE
    /\ current_dataset = NoValue

\* lines 626-628 (and 635-636 followed by the next run's 35-37): every key
\* of the session state is put back to its default
ResetSession ==
    /\ user_authenticated' = FALSE
    /\ user_id' = NoValue
    /\ user_identifier' = NoValue
    /\ processed_df' = NoValue
    /\ user_tables' = <<>>
    /\ existing_table' = NoValue
    /\ new_user_id' = NoValue
    /\ data_stored' = FALSE
    /\ current_dataset' = NoValue

AppIdle ==
    /\ SessionDefaults
    /\ gemini_key = TRUE
    /\ rerun = FALSE
    /\ run = [chatbot |-> FALSE]
    /\ persisted = FALSE
    /\ stored = {}
    /\ logins = 0

EmptyTable == [dtypes |-> <<>>, rows |-> <<>>]

PrepIdle ==
    /\ raw_df = EmptyTable
    /\ pipeline = [done |-> FALSE]
    /\ hybrid = [done |-> FALSE]

ChartIdle ==
    /\ results_df = [columns |-> <<>>, has_rows |-> FALSE]
    /\ user_question = <<>>
    /\ axes = [done |-> FALSE]
    /\ charts = [done |-> FALSE]

EngineIdle ==
    /\ secrets_url = FALSE
    /\ ca_exists = <<>>
    /\ connects = <<>>
    /\ engine_pc = [at |-> "idle", ca |-> 0]
    /\ attempts = <<>>
    /\ engine = NoValue

StoreIdle ==
    /\ database = <<>>
    /\ store_df = NoFrame
    /\ createCalls = <<>>
    /\ storeCall = [done |-> FALSE]

QueryIdle ==
    /\ queryCall = [done |-> FALSE]
    /\ chat = [clicked |-> FALSE]

AccountIdle ==
    /\ typed = <<>>
    /\ accounts = <<>>

MoreIdle == StoreIdle /\ QueryIdle /\ AccountIdle

InitDb ==
    /\ tables \in SetsUpTo(Names \ {<<>>}, MaxTables)
    /\ dbCall = [op |-> "none"]
    /\ AppIdle
    /\ PrepIdle
    /\ ChartIdle
    /\ EngineIdle
    /\ MoreIdle

\* delete_all_user_tables(user_id): no engine, or an error, returns False;
\* no matching row returns True; otherwise the rows are dropped one by one
\* (each DROP commits on its own) and a failing DROP ends the call with False
delete_all_user_tables(uid, up, dropped) ==
    /\ dropped \subseteq DeleteRows(tables, uid)
    /\ ~up => dropped = {}
    /\ tables' = tables \ dropped
    /\ dbCall' = [op |-> "delete_all", user_id |-> uid, before |-> tables,
                  result |-> up /\ dropped = DeleteRows(tables, uid)]

\* verify_user_table_exists(user_hash, table_name)
verify_user_table_exists(user_hash, table_name, up) ==
    /\ dbCall' = [op |-> "verify", user_hash |-> user_hash, table_name |-> table_name,
                  before |-> tables, up |-> up,
                  result |-> VerifyUserTableExists(tables, user_hash, table_name, up)]
    /\ UNCHANGED tables

DeleteCall ==
    /\ \E uid \in Texts(NameAlphabet, MaxIdLen) \ {<<>>}, up \in BOOLEAN,
          dropped \in SUBSET tables :
            delete_all_user_tables(uid, up, dropped)
    /\ UNCHANGED notDb

VerifyCall ==
    /\ \E user_hash \in Texts(NameAlphabet, 1), table_name \in Texts(NameAlphabet, 1),
          up \in BOOLEAN :
            verify_user_table_exists(user_hash, table_name, up)
    /\ UNCHANGED notDb

NextDb == DeleteCall \/ VerifyCall

SpecDb == InitDb /\ [][NextDb]_vars

----------------------------------------------------------------------------
(* main.py: the Streamlit script.  One run of the script is one action.    *)

HexDigits == <<"0", "1", "2", "3", "4", "5", "6", "7", "8", "9",
               "a", "b", "c", "d", "e", "f">>

HashLen == 6         \* hexdigest()[:6]

\* what is typed into the Name and the Email boxes (either may stay empty)
UserNames == {<<>>, <<"a">>, <<"a", Underscore>>}
UserEmails == {<<>>, <<"a">>, <<Underscore, "a">>}

\* what is typed into the Existing ID box, besides the names of the tables
\* that exist
TypedIds == {<<"a", "b">>, <<"a", Underscore, "b">>, <<Underscore, "a">>,
             <<"a", Underscore>>, <<"b", Underscore, Underscore, "a">>}

\* the code point of a character, as far as the digest stand-in needs it
CharCode(c) == IF c = Underscore THEN 95 ELSE 97

\* a stand-in for the MD5 digest as a number: deterministic in the text
RECURSIVE DigestNumber(_, _)
DigestNumber(s, acc) ==
    IF Len(s) = 0 THEN acc
    ELSE DigestNumber(Tail(s), (acc * 31 + CharCode(Head(s)) + Len(s)) % (16 ^ HashLen))

\* hashlib.md5(user_identifier.encode()).hexdigest()[:6]: six hex digits
UserHash(identifier) ==
    LET n == DigestNumber(identifier, 7)
    IN [i \in 1..HashLen |-> HexDigits[((n \div (16 ^ (HashLen - i))) % 16) + 1]]

\* f"Existing: {existing_id}"
ExistingPrefix == <<"E", "x", "i", "s", "t", "i", "n", "g", ":", " ">>

\* f"{user_name}_{user_email}"
UserIdentifier(user_name, user_email) == user_name \o <<Underscore>> \o user_email

SalesData == <<"s", "a", "l", "e", "s", "_", "d", "a", "t", "a">>
BusinessData == <<"b", "u", "s", "i", "n", "e", "s", "s", "_", "d", "a", "t", "a">>

\* a Python dict as the sequence of its <<key, value>> items in insertion order
DictValues(d) == {d[i][2] : i \in 1..Len(d)}
DictSet(d, k, v) ==
    IF \E i \in 1..Len(d) : d[i][1] = k
    THEN [i \in 1..Len(d) |-> IF d[i][1] = k THEN <<k, v>> ELSE d[i]]
    ELSE Append(d, <<k, v>>)

\* Python truthiness of a text or None
Truthy(x) == x # NoValue /\ x # <<>>

\* tables that exist before the first run
SeedTables == {<<"a", "_", "b">>, <<"a", "a", "b">>, <<"_", "a">>}

InitApp ==
    /\ tables \in SUBSET SeedTables
    /\ dbCall = [op |-> "none"]
    /\ SessionDefaults
    /\ gemini_key \in BOOLEAN
    /\ rerun = FALSE
    /\ run = [chatbot |-> FALSE]
    /\ persisted = FALSE
    /\ stored = {}
    /\ logins = 0
    /\ PrepIdle
    /\ ChartIdle
    /\ EngineIdle
    /\ MoreIdle

\* lines 583-586: not authenticated, no click: the login form is drawn, st.stop()
LoginPageRun ==
    /\ UNCHANGED notApp
    /\ ~user_authenticated
    /\ rerun' = FALSE
    /\ run' = [chatbot |-> FALSE]
    /\ UNCHANGED <<dbVars, sessionVars, gemini_key, persisted, stored, logins>>

\* authenticate_user 526-547: the button with an existing ID typed in
LoginExistingRun ==
    /\ UNCHANGED notApp
    /\ ~user_authenticated /\ ~rerun /\ logins < MaxLogins
    /\ \E existing_id \in TypedIds \cup tables, up \in BOOLEAN :
        LET parts == Split(existing_id, Underscore)
            user_hash == parts[1]
            table_name == Join(Tail(parts), Underscore)
        IN IF HasChar(existing_id, Underscore)
              /\ VerifyUserTableExists(tables, user_hash, table_name, up)
           THEN /\ user_id' = user_hash
                /\ user_authenticated' = TRUE
                /\ user_identifier' = ExistingPrefix \o existing_id
                /\ existing_table' = existing_id
                /\ user_tables' = <<<<table_name, existing_id>>>>
                /\ data_stored' = TRUE
                /\ persisted' = TRUE
                /\ rerun' = TRUE
                /\ logins' = logins + 1
                /\ UNCHANGED <<processed_df, new_user_id, current_dataset>>
           ELSE /\ rerun' = FALSE
                /\ UNCHANGED <<sessionVars, persisted, logins>>
    /\ run' = [chatbot |-> FALSE]
    /\ UNCHANGED <<dbVars, gemini_key, stored>>

\* authenticate_user 549-568: the button with no existing ID typed in
LoginNewRun ==
    /\ UNCHANGED notApp
    /\ ~user_authenticated /\ ~rerun /\ logins < MaxLogins
    /\ \E user_name \in UserNames, user_email \in UserEmails :
        IF user_name # <<>> /\ user_email # <<>>
        THEN LET identifier == UserIdentifier(user_name, user_email)
                 user_hash == UserHash(identifier)
                 new_id == FullTableName(user_hash, SalesData)
             IN /\ user_id' = user_hash
                /\ user_authenticated' = TRUE
                /\ user_identifier' = identifier
                /\ new_user_id' = new_id
                /\ existing_table' = new_id
                /\ user_tables' = <<<<SalesData, new_id>>>>
                /\ rerun' = TRUE
                /\ logins' = logins + 1
                /\ UNCHANGED <<processed_df, data_stored, current_dataset>>
        ELSE /\ rerun' = FALSE
             /\ UNCHANGED <<sessionVars, logins>>
    /\ run' = [chatbot |-> FALSE]
    /\ UNCHANGED <<dbVars, gemini_key, persisted, stored>>

\* lines 598-600: the Smart Navigation test
GoesToChatbot == data_stored /\ Truthy(existing_table)

\* line 508: the test at the end of show_file_upload_interface
UploadShowsChatbot(processed, utables) == processed # NoValue /\ Len(utables) > 0

\* realdatabase.py store_user_data 156-213 as the script calls it: the table
\* it writes to, and whether existing_table is assigned (line 167)
StoreTableNoPrefix(uid, table_name) ==
    IF Truthy(existing_table) THEN table_name ELSE FullTableName(uid, table_name)

StoreTable(uid, table_name) ==
    IF Truthy(existing_table) THEN existing_table ELSE FullTableName(uid, table_name)

\* the outcomes of store_user_data for a dataset df:
\*   "no_user"  user_id missing (158-160)      "no_engine"  get_engine() is None
\*   "create_failed"  create_table_with_pk returned False
\*   "insert_failed"  to_sql raised after the table was there
\*   "ok"  every chunk appended
\* With df = None the table is never created or written: df.columns raises
\* inside create_table_with_pk, or len(df) raises when the table exists.
StoreOutcomes(uid, df) ==
    IF ~Truthy(uid) THEN {"no_user"}
    ELSE IF df = NoValue THEN {"no_engine", "create_failed"}
    ELSE {"no_engine", "create_failed", "insert_failed", "ok"}

\* lines 626-629 Switch User, 631-640 Delete My Data: what the sidebar does
\* after the page body when neither button was clicked
NoSidebarClick == UNCHANGED <<user_authenticated, user_id, user_identifier, user_tables,
                              new_user_id>>

\* an authenticated run with no button clicked (also the run st.rerun() starts)
PlainRun ==
    /\ UNCHANGED notApp
    /\ user_authenticated
    /\ \E upload \in {"none", "unreadable", "table"} :
        /\ current_dataset' = IF ~GoesToChatbot /\ upload = "table" THEN SomeTable ELSE current_dataset
        /\ run' = [chatbot |-> GoesToChatbot \/ UploadShowsChatbot(processed_df, user_tables)]
    /\ rerun' = FALSE
    /\ NoSidebarClick
    /\ UNCHANGED <<dbVars, processed_df, existing_table, data_stored, gemini_key,
                   persisted, stored, logins>>

\* show_file_upload_interface 463-510 with Process Data clicked
ProcessDataRun ==
    /\ UNCHANGED notApp
    /\ user_authenticated /\ ~rerun /\ ~GoesToChatbot
    /\ current_dataset' = SomeTable
    /\ IF ~gemini_key
       THEN \* 486-489: return before line 508
            /\ run' = [chatbot |-> FALSE]
            /\ rerun' = FALSE
            /\ UNCHANGED <<dbVars, processed_df, user_tables, existing_table, data_stored,
                           persisted, stored>>
       ELSE \E processed \in {SomeTable, NoValue} :
            \E outcome \in StoreOutcomes(user_id, processed) :
            LET user_table == StoreTable(user_id, BusinessData)
                touched == outcome \in {"insert_failed", "ok"}
                success == outcome = "ok"
            IN /\ processed_df' = processed
               /\ existing_table' = IF outcome = "no_user" THEN existing_table ELSE user_table
               /\ tables' = IF touched THEN tables \cup {user_table} ELSE tables
               /\ stored' = IF touched THEN stored \cup {<<user_id, user_table>>} ELSE stored
               /\ IF success
                  THEN \* 499-503
                       /\ user_tables' = DictSet(user_tables, BusinessData, user_table)
                       /\ data_stored' = TRUE
                       /\ persisted' = TRUE
                       /\ rerun' = TRUE
                       /\ run' = [chatbot |-> FALSE]
                  ELSE \* 504-510
                       /\ rerun' = FALSE
                       /\ run' = [chatbot |-> UploadShowsChatbot(processed, user_tables)]
                       /\ UNCHANGED <<user_tables, data_stored, persisted>>
               /\ UNCHANGED dbCall
    /\ UNCHANGED <<user_authenticated, user_id, user_identifier, new_user_id, gemini_key,
                   logins>>

\* lines 626-629: Switch User
SwitchUserRun ==
    /\ UNCHANGED notApp
    /\ user_authenticated /\ ~rerun
    /\ run' = [chatbot |-> GoesToChatbot \/ UploadShowsChatbot(processed_df, user_tables)]
    /\ ResetSession
    /\ persisted' = FALSE
    /\ stored' = {}
    /\ rerun' = TRUE
    /\ UNCHANGED <<dbVars, gemini_key, logins>>

\* lines 631-640: Delete My Data
DeleteMyDataRun ==
    /\ UNCHANGED notApp
    /\ user_authenticated /\ ~rerun
    /\ run' = [chatbot |-> GoesToChatbot \/ UploadShowsChatbot(processed_df, user_tables)]
    /\ IF Truthy(user_id)
       THEN \E up \in BOOLEAN, dropped \in SUBSET tables :
            /\ delete_all_user_tables(user_id, up, dropped)
            /\ IF dbCall'.result
               THEN ResetSession /\ persisted' = FALSE /\ stored' = {} /\ rerun' = TRUE
               ELSE UNCHANGED <<sessionVars, persisted, stored>> /\ rerun' = FALSE
       ELSE UNCHANGED <<dbVars, sessionVars, persisted, stored>> /\ rerun' = FALSE
    /\ UNCHANGED <<gemini_key, logins>>

NextApp ==
    \/ LoginPageRun
    \/ LoginExistingRun
    \/ LoginNewRun
    \/ PlainRun
    \/ ProcessDataRun
    \/ SwitchUserRun
    \/ DeleteMyDataRun

SpecApp == InitApp /\ [][NextApp]_vars

----------------------------------------------------------------------------
(* main.py 43-154: preprocessing.                                           *)
(* A table is [dtypes, rows]: the dtype of each column ("number" or         *)
(* "object") and the rows in order, each a tuple of cells.  A numeric cell  *)
(* holds twice its value, so that the median of an even number of whole     *)
(* values is exact; a missing cell (NaN) is NaN(dtype).                     *)

ObjectValues == <<"x", "y">>        \* the texts of an object column, in sort order
NumberValues == {0, 2}              \* the numbers 0 and 1, doubled

NaN(dtype) == IF dtype = "number" THEN -1 ELSE "NaN"
IsNa(dtype, cell) == cell = NaN(dtype)

MissingPct == 5      \* the threshold 0.05

NumRows(t) == Len(t.rows)
NumCols(t) == Len(t.dtypes)

\* the cells of column c that are present, in row order
Present(t, c) ==
    LET Keep(r) == ~IsNa(t.dtypes[c], r[c])
        kept == SelectSeq(t.rows, Keep)
    IN [i \in 1..Len(kept) |-> kept[i][c]]

MissingCount(t, c) == NumRows(t) - Len(Present(t, c))

\* df[col].isna().mean() <= 0.05; the mean of no rows is NaN, which is not <=
LowMissing(t, c) == NumRows(t) > 0 /\ 100 * MissingCount(t, c) <= MissingPct * NumRows(t)

low_missing_cols(t) == {c \in 1..NumCols(t) : LowMissing(t, c)}
high_missing_cols(t) == {c \in 1..NumCols(t) : ~LowMissing(t, c)}

\* df.dropna(subset=cols)
DropNa(t, cols) ==
    LET Keep(r) == \A c \in cols : ~IsNa(t.dtypes[c], r[c])
    IN [t EXCEPT !.rows = SelectSeq(t.rows, Keep)]

\* ascending sort of a sequence of numbers
RECURSIVE Insert(_, _)
Insert(sorted, v) ==
    IF Len(sorted) = 0 THEN <<v>>
    ELSE IF v <= Head(sorted) THEN <<v>> \o sorted
    ELSE <<Head(sorted)>> \o Insert(Tail(sorted), v)

RECURSIVE Sorted(_)
Sorted(vals) == IF Len(vals) = 0 THEN <<>> ELSE Insert(Sorted(Tail(vals)), Head(vals))

RECURSIVE Sum(_)
Sum(vals) == IF Len(vals) = 0 THEN 0 ELSE Head(vals) + Sum(Tail(vals))

\* Series.median(): the middle value, or the mean of the two middle values;
\* NaN when no value is present
Median(vals) ==
    LET n == Len(vals)
        sorted == Sorted(vals)
    IN IF n = 0 THEN NaN("number")
       ELSE IF n % 2 = 1 THEN sorted[(n + 1) \div 2]
       ELSE (sorted[n \div 2] + sorted[(n \div 2) + 1]) \div 2

\* the mean, rounded down: what a fill by mean() would put in
Mean(vals) == IF Len(vals) = 0 THEN NaN("number") ELSE Sum(vals) \div Len(vals)

Occurrences(vals, v) == Cardinality({i \in 1..Len(vals) : vals[i] = v})

\* Series.mode(): the most frequent values in sort order; [0] is the first
\* of them; "" when the column has no value
ModeOrEmpty(vals) ==
    LET ranks == {k \in 1..Len(ObjectValues) : Occurrences(vals, ObjectValues[k]) > 0}
        best == {k \in ranks : \A j \in ranks :
                    Occurrences(vals, ObjectValues[j]) <= Occurrences(vals, ObjectValues[k])}
    IN IF ranks = {} THEN ""
       ELSE ObjectValues[CHOOSE k \in best : \A j \in best : k <= j]

\* lines 64-67: the value that fills column c
FillMean(t, c) ==
    IF t.dtypes[c] # "object" THEN Mean(Present(t, c)) ELSE ModeOrEmpty(Present(t, c))

FillValue(t, c) ==
    IF t.dtypes[c] # "object" THEN Median(Present(t, c)) ELSE ModeOrEmpty(Present(t, c))

\* lines 63-67: df[col] = df[col].fillna(...) for every column of cols
FillNa(t, cols) ==
    [t EXCEPT !.rows =
        [i \in 1..Len(t.rows) |->
            [c \in 1..NumCols(t) |->
                IF c \in cols /\ IsNa(t.dtypes[c], t.rows[i][c])
                THEN FillValue(t, c) ELSE t.rows[i][c]]]]

\* df.drop_duplicates(): the first of every run of equal rows is kept
RECURSIVE Dedup(_, _)
Dedup(rows, seen) ==
    IF Len(rows) = 0 THEN <<>>
    ELSE IF Head(rows) \in seen THEN Dedup(Tail(rows), seen)
    ELSE <<Head(rows)>> \o Dedup(Tail(rows), seen \cup {Head(rows)})

DropDuplicates(t) == [t EXCEPT !.rows = Dedup(t.rows, {})]

\* complete_preprocessing_pipeline(df), stage by stage; df.copy() leaves the
\* caller's table as it was
Pipeline(df) ==
    LET low == low_missing_cols(df)
        high == high_missing_cols(df)
        dropped == DropNa(df, low)
        filled == FillNa(dropped, high)
    IN [done |-> TRUE, input |-> df, caller_df |-> df, low |-> low, high |-> high,
        dropped |-> dropped, filled |-> filled, output |-> DropDuplicates(filled)]

\* what generated code does to the table named df, one statement at a time:
\*   "inplace"  changes the object df is bound to (df['flag'] = 0)
\*   "rebind"   binds df to a new table (df = df.head(1))
\*   "raise"    raises
Statements == {"inplace", "rebind", "raise"}

AddColumn(t) ==
    [dtypes |-> Append(t.dtypes, "number"),
     rows |-> [i \in 1..Len(t.rows) |-> Append(t.rows[i], 0)]]

FirstRow(t) == [t EXCEPT !.rows = SubSeq(t.rows, 1, IF Len(t.rows) > 0 THEN 1 ELSE 0)]

\* exec(generated_code, {}, local_vars) from statement k on.  param is the
\* object passed in, bound the object the name df is bound to, same whether
\* they are one object
RECURSIVE Exec(_, _, _, _, _)
Exec(code, k, param, bound, same) ==
    IF k > Len(code) THEN [raised |-> FALSE, param |-> param, bound |-> bound]
    ELSE IF code[k] = "raise" THEN [raised |-> TRUE, param |-> param, bound |-> bound]
    ELSE IF code[k] = "inplace"
         THEN Exec(code, k + 1, IF same THEN AddColumn(param) ELSE param,
                   AddColumn(bound), same)
    ELSE Exec(code, k + 1, param, FirstRow(bound), FALSE)

\* execute_generated_code(df, generated_code) 117-133: local_vars.get("df", df)
\* after the code ran, df itself after it raised
execute_generated_code(df, generated_code) ==
    LET e == Exec(generated_code, 1, df, df, TRUE)
    IN [raised |-> e.raised, result |-> IF e.raised THEN e.param ELSE e.bound]

\* what gemini_auto_preprocessing returns: None after an exception, the
\* stripped text otherwise (possibly empty), here the statements it holds
GeneratedCodes == {NoValue} \cup Texts(Statements, MaxStmts)

\* hybrid_preprocessing(df, api_key) 136-154
Hybrid(df, generated_code) ==
    LET df_clean == Pipeline(df).output
    IN IF generated_code # NoValue /\ generated_code # <<>>
       THEN LET e == execute_generated_code(df_clean, generated_code)
            IN [done |-> TRUE, input |-> df, generated_code |-> generated_code,
                df_clean |-> df_clean, executed_on |-> df_clean, raised |-> e.raised,
                propagated |-> FALSE, result |-> e.result]
       ELSE [done |-> TRUE, input |-> df, generated_code |-> generated_code,
             df_clean |-> df_clean, executed_on |-> NoValue, raised |-> FALSE,
             propagated |-> FALSE, result |-> df_clean]

\* the uploaded tables: a run of PadRows equal complete rows, or none,
\* followed by up to MaxRows rows of any cells
Schemas == {<<"number">>, <<"object">>, <<"number", "object">>}

Cells(dtype) ==
    IF dtype = "number" THEN NumberValues \cup {NaN("number")}
    ELSE {ObjectValues[k] : k \in 1..Len(ObjectValues)} \cup {NaN("object")}

RECURSIVE RowsOf(_)
RowsOf(dtypes) ==
    IF Len(dtypes) = 0 THEN {<<>>}
    ELSE {<<cell>> \o rest : cell \in Cells(Head(dtypes)), rest \in RowsOf(Tail(dtypes))}

PadRow(dtypes) == [c \in 1..Len(dtypes) |-> IF dtypes[c] = "number" THEN 2 ELSE "x"]

\* so many complete rows that one more row with a missing cell is 5% of the table
PadRows == (100 \div MissingPct) - 1

InitPrep ==
    /\ \E d \in Schemas, pad \in {0, PadRows}, n \in 0..MaxRows :
        \E tail \in [1..n -> RowsOf(d)] :
            raw_df = [dtypes |-> d, rows |-> [i \in 1..pad |-> PadRow(d)] \o tail]
    /\ pipeline = [done |-> FALSE]
    /\ hybrid = [done |-> FALSE]
    /\ tables = {}
    /\ dbCall = [op |-> "none"]
    /\ AppIdle
    /\ ChartIdle
    /\ EngineIdle
    /\ MoreIdle

PipelineCall ==
    /\ ~pipeline.done /\ ~hybrid.done
    /\ pipeline' = Pipeline(raw_df)
    /\ UNCHANGED <<raw_df, hybrid>>
    /\ UNCHANGED notPrep

HybridCall ==
    /\ ~pipeline.done /\ ~hybrid.done
    /\ \E generated_code \in GeneratedCodes : hybrid' = Hybrid(raw_df, generated_code)
    /\ UNCHANGED <<raw_df, pipeline>>
    /\ UNCHANGED notPrep

NextPrep == PipelineCall \/ HybridCall

SpecPrep == InitPrep /\ [][NextPrep]_vars

----------------------------------------------------------------------------
(* main.py 319-419: the automatic choice of axes and chart type.            *)
(* A result table is its columns in order, each a name and whether its      *)
(* dtype is numeric, and whether it has rows.                               *)

\* str.lower() on the letters that occur in the names and questions modelled
LowerChar(c) ==
    CASE c = "D" -> "d" [] c = "G" -> "g" [] c = "M" -> "m" [] c = "Q" -> "q"
      [] c = "S" -> "s" [] c = "T" -> "t" [] c = "W" -> "w" [] OTHER -> c

Lower(s) == [i \in 1..Len(s) |-> LowerChar(s[i])]

\* any(k in s for k in keywords)
ContainsAny(s, keywords) == \E i \in 1..Len(keywords) : Contains(s, keywords[i])

priority_time_cols ==
    << <<"d", "a", "t", "e">>, <<"w", "e", "e", "k">>, <<"m", "o", "n", "t", "h">>, <<"d", "a", "y">>, <<"y", "e", "a", "r">> >>

preferred_y_keywords ==
    << <<"s", "a", "l", "e", "s">>, <<"t", "o", "t", "a", "l">>, <<"a", "m", "o", "u", "n", "t">>, <<"p", "r", "i", "c", "e">>,
       <<"r", "e", "v", "e", "n", "u", "e">>, <<"q", "t", "y">>, <<"q", "u", "a", "n", "t", "i", "t", "y">> >>

time_keywords ==
    << <<"d", "a", "t", "e">>, <<"w", "e", "e", "k">>, <<"m", "o", "n", "t", "h">>, <<"y", "e", "a", "r">>,
       <<"d", "a", "y">>, <<"q", "u", "a", "r", "t", "e", "r">>, <<"t", "i", "m", "e">>, <<"p", "e", "r", "i", "o", "d">>,
       <<"d", "a", "i", "l", "y">>, <<"m", "o", "n", "t", "h", "l", "y">>, <<"w", "e", "e", "k", "l", "y">>, <<"y", "e", "a", "r", "l", "y">> >>

trend_keywords ==
    << <<"t", "r", "e", "n", "d">>, <<"f", "o", "r", "e", "c", "a", "s", "t">>, <<"i", "n", "c", "r", "e", "a", "s", "e">>,
       <<"g", "r", "o", "w", "t", "h">>, <<"p", "a", "t", "t", "e", "r", "n">>, <<"c", "h", "a", "n", "g", "e">>,
       <<"s", "e", "a", "s", "o", "n">>, <<"m", "o", "v", "i", "n", "g", " ", "a", "v", "e", "r", "a", "g", "e">>, <<"p", "r", "o", "g", "r", "e", "s", "s">> >>

bar_keywords ==
    << <<"c", "o", "m", "p", "a", "r", "e">>, <<"c", "o", "m", "p", "a", "r", "i", "s", "o", "n">>, <<"d", "i", "s", "t", "r", "i", "b", "u", "t", "i", "o", "n">>, <<"r", "a", "n", "k">>,
       <<"t", "o", "p">>, <<"b", "o", "t", "t", "o", "m">>, <<"b", "r", "e", "a", "k", "d", "o", "w", "n">>, <<"s", "p", "l", "i", "t">> >>

ColumnName(df, i) == df.columns[i].name

\* df.select_dtypes(include=['number']).columns / (exclude=['number'])
numeric_cols(df) == SelectSeq(df.columns, LAMBDA col : col.numeric)
non_numeric_cols(df) == SelectSeq(df.columns, LAMBDA col : ~col.numeric)

\* lines 330-333: the first column whose lowercased name contains keyword,
\* x_axis as it was when there is none
FirstWith(df, keyword, x_axis) ==
    IF \E i \in 1..Len(df.columns) : Contains(Lower(ColumnName(df, i)), keyword)
    THEN ColumnName(df, CHOOSE i \in 1..Len(df.columns) :
            /\ Contains(Lower(ColumnName(df, i)), keyword)
            /\ \A j \in 1..(i - 1) : ~Contains(Lower(ColumnName(df, j)), keyword))
    ELSE x_axis

\* lines 329-335 with the two loops exchanged: the first column that contains
\* any keyword
TimeAxisColumnFirst(df, k, x_axis) ==
    IF \E i \in 1..Len(df.columns) : ContainsAny(Lower(ColumnName(df, i)), priority_time_cols)
    THEN ColumnName(df, CHOOSE i \in 1..Len(df.columns) :
            /\ ContainsAny(Lower(ColumnName(df, i)), priority_time_cols)
            /\ \A j \in 1..(i - 1) :
                ~ContainsAny(Lower(ColumnName(df, j)), priority_time_cols))
    ELSE x_axis

\* lines 329-335: the keywords in priority order, left at the first keyword
\* after which x_axis is truthy
RECURSIVE TimeAxis(_, _, _)
TimeAxis(df, k, x_axis) ==
    IF k > Len(priority_time_cols) THEN x_axis
    ELSE LET found == FirstWith(df, priority_time_cols[k], x_axis)
         IN IF Truthy(found) THEN found ELSE TimeAxis(df, k + 1, found)

\* lines 326-343
XAxis(df) ==
    LET x_axis == TimeAxis(df, 1, NoValue)
    IN IF x_axis # NoValue THEN x_axis
       ELSE IF Len(non_numeric_cols(df)) > 0 THEN non_numeric_cols(df)[1].name
       ELSE ColumnName(df, 1)

\* the name of the first column of cols, None when there is none
FirstOr(cols) == IF Len(cols) > 0 THEN cols[1].name ELSE NoValue

\* lines 348-359
YAxis(df, x_axis) ==
    LET Preferred(col) == col.name # x_axis /\ ContainsAny(Lower(col.name), preferred_y_keywords)
        Other(col) == col.name # x_axis
        y_axis == FirstOr(SelectSeq(numeric_cols(df), Preferred))
    IN IF y_axis # NoValue THEN y_axis ELSE FirstOr(SelectSeq(numeric_cols(df), Other))

\* auto_detect_axes(df) 319-361
auto_detect_axes(df) == [done |-> TRUE, x_axis |-> XAxis(df), y_axis |-> YAxis(df, XAxis(df))]

\* results_df.empty
IsEmpty(df) == ~df.has_rows \/ Len(df.columns) = 0

\* lines 405-418
ChartType(x_axis, y_axis, question) ==
    LET user_q == Lower(question)
    IN IF Truthy(y_axis)
       THEN IF \/ ContainsAny(Lower(x_axis), time_keywords)
               \/ ContainsAny(user_q, time_keywords)
               \/ ContainsAny(user_q, trend_keywords)
            THEN "Line Chart"
            ELSE IF ContainsAny(user_q, bar_keywords) THEN "Bar Chart"
            ELSE "Bar Chart"
       ELSE "Histogram"

\* display_results_with_auto_chart(results_df, user_question) 364-419: the
\* calls of create_and_display_chart it makes
ChartRequests(df, question) ==
    IF IsEmpty(df) THEN <<>>
    ELSE LET a == auto_detect_axes(df)
         IN <<[chart_type |-> ChartType(a.x_axis, a.y_axis, question),
               x_axis |-> a.x_axis, y_axis |-> a.y_axis]>>

ColumnNameList ==
    << <<>>, <<"D", "a", "t", "e">>, <<"w", "e", "e", "k", "d", "a", "y">>, <<"M", "o", "n", "t", "h">>,
       <<"S", "a", "l", "e", "s">>, <<"q", "t", "y">>, <<"Q", "u", "a", "r", "t", "e", "r">>, <<"i", "d">> >>
ColumnNames == {ColumnNameList[i] : i \in 1..Len(ColumnNameList)}

QuestionList ==
    << <<>>, <<"T", "o", "t", "a", "l", " ", "b", "y", " ", "i", "d">>, <<"G", "r", "o", "w", "t", "h">>,
       <<"t", "o", "p", " ", "5">>, <<"w", "e", "e", "k", "l", "y">> >>
Questions == {QuestionList[i] : i \in 1..Len(QuestionList)}

Columns == [name : ColumnNames, numeric : BOOLEAN]

InitChart ==
    /\ \E n \in 0..MaxCols : \E cols \in [1..n -> Columns], has_rows \in BOOLEAN :
        results_df = [columns |-> cols, has_rows |-> has_rows]
    /\ user_question \in Questions
    /\ axes = [done |-> FALSE]
    /\ charts = [done |-> FALSE]
    /\ tables = {}
    /\ dbCall = [op |-> "none"]
    /\ AppIdle
    /\ PrepIdle
    /\ EngineIdle
    /\ MoreIdle

AxesCall ==
    /\ ~axes.done
    /\ Len(results_df.columns) > 0
    /\ axes' = auto_detect_axes(results_df)
    /\ UNCHANGED <<results_df, user_question, charts>>
    /\ UNCHANGED notChart

DisplayCall ==
    /\ ~charts.done
    /\ charts' = [done |-> TRUE, requests |-> ChartRequests(results_df, user_question)]
    /\ axes' = IF IsEmpty(results_df) THEN axes ELSE auto_detect_axes(results_df)
    /\ UNCHANGED <<results_df, user_question>>
    /\ UNCHANGED notChart

NextChart == AxesCall \/ DisplayCall

SpecChart == InitChart /\ [][NextChart]_vars

----------------------------------------------------------------------------
(* realdatabase.py 8-100: get_engine.  One attempt (create_engine and the   *)
(* test query SELECT 1) is one step.                                        *)

ca_candidates ==
    << "/etc/ssl/certs/ca-certificates.crt",
       "/etc/ssl/cert.pem",
       "/usr/local/share/ca-certificates/ca-bundle.crt" >>

GenericSsl == "generic ssl"     \* connect_args={"ssl": {"ssl": True}}
NoSsl == "no ssl"               \* no connect_args

AttemptKinds == {ca_candidates[i] : i \in 1..Len(ca_candidates)} \cup {GenericSsl, NoSsl}

\* the engine an attempt builds
EngineOf(attempt) == <<"engine", attempt>>

InitEngine ==
    /\ secrets_url \in BOOLEAN
    /\ ca_exists \in [1..Len(ca_candidates) -> BOOLEAN]
    /\ connects \in [AttemptKinds -> BOOLEAN]
    /\ engine_pc = [at |-> "idle", ca |-> 0]
    /\ attempts = <<>>
    /\ engine = NoValue
    /\ tables = {}
    /\ dbCall = [op |-> "none"]
    /\ AppIdle
    /\ PrepIdle
    /\ ChartIdle
    /\ MoreIdle

\* where the call goes after the attempt at pc failed, or was skipped because
\* the CA file does not exist: the next CA candidate (36), then generic SSL
\* (59), then no SSL (78), then the end (95-96)
NextAttemptSkipGeneric(pc) ==
    IF pc.at = "ca" /\ pc.ca < Len(ca_candidates) THEN [at |-> "ca", ca |-> pc.ca + 1]
    ELSE IF pc.at = "ca" THEN [at |-> "no_ssl", ca |-> 0]
    ELSE IF pc.at = "generic" THEN [at |-> "no_ssl", ca |-> 0]
    ELSE [at |-> "all_failed", ca |-> 0]

NextAttempt(pc) ==
    IF pc.at = "ca" /\ pc.ca < Len(ca_candidates) THEN [at |-> "ca", ca |-> pc.ca + 1]
    ELSE IF pc.at = "ca" THEN [at |-> "generic", ca |-> 0]
    ELSE IF pc.at = "generic" THEN [at |-> "no_ssl", ca |-> 0]
    ELSE [at |-> "all_failed", ca |-> 0]

\* one attempt: the engine is returned when the test query succeeds (50-53,
\* 70-73, 88-91); the exception of a failed attempt is caught (54, 74, 92)
Attempt(kind) ==
    /\ attempts' = Append(attempts, kind)
    /\ IF connects[kind]
       THEN engine' = EngineOf(kind) /\ engine_pc' = [at |-> "returned", ca |-> 0]
       ELSE engine' = engine /\ engine_pc' = NextAttempt(engine_pc)

\* lines 12-17: the first call; None when the secret is missing
GetEngine ==
    /\ engine_pc.at = "idle"
    /\ IF secrets_url
       THEN engine_pc' = [at |-> "ca", ca |-> 1]
       ELSE engine_pc' = [at |-> "returned", ca |-> 0]
    /\ UNCHANGED <<secrets_url, ca_exists, connects, attempts, engine>>
    /\ UNCHANGED notEngine

\* lines 36-56: one CA candidate, tried only when the file exists
TryCa ==
    /\ engine_pc.at = "ca"
    /\ IF ca_exists[engine_pc.ca]
       THEN Attempt(ca_candidates[engine_pc.ca])
       ELSE engine_pc' = NextAttempt(engine_pc) /\ UNCHANGED <<attempts, engine>>
    /\ UNCHANGED <<secrets_url, ca_exists, connects>>
    /\ UNCHANGED notEngine

\* lines 59-75
TryGenericSsl ==
    /\ engine_pc.at = "generic"
    /\ Attempt(GenericSsl)
    /\ UNCHANGED <<secrets_url, ca_exists, connects>>
    /\ UNCHANGED notEngine

\* lines 78-93
TryNoSsl ==
    /\ engine_pc.at = "no_ssl"
    /\ Attempt(NoSsl)
    /\ UNCHANGED <<secrets_url, ca_exists, connects>>
    /\ UNCHANGED notEngine

\* lines 95-96
AllFailed ==
    /\ engine_pc.at = "all_failed"
    /\ engine' = NoValue
    /\ engine_pc' = [at |-> "returned", ca |-> 0]
    /\ UNCHANGED <<secrets_url, ca_exists, connects, attempts>>
    /\ UNCHANGED notEngine

\* line 8, @st.cache_resource: a later call returns what the first returned
GetEngineAgain ==
    /\ engine_pc.at = "returned"
    /\ engine_pc' = [at |-> "returned_from_cache", ca |-> 0]
    /\ UNCHANGED <<secrets_url, ca_exists, connects, attempts, engine>>
    /\ UNCHANGED notEngine

NextEngine == GetEngine \/ TryCa \/ TryGenericSsl \/ TryNoSsl \/ AllFailed \/ GetEngineAgain

SpecEngine == InitEngine /\ [][NextEngine]_vars

----------------------------------------------------------------------------
(* realdatabase.py 103-153: create_table_with_pk                            *)

\* the pandas dtypes _sql_type_for_series tells apart
Dtypes == {"int64", "float64", "bool", "datetime64[ns]", "object"}

\* _sql_type_for_series(series) 103-114
sql_type_for_series(dtype) ==
    IF dtype = "int64" THEN "BIGINT"
    ELSE IF dtype = "float64" THEN "DOUBLE"
    ELSE IF dtype = "bool" THEN "TINYINT"
    ELSE IF dtype = "datetime64[ns]" THEN "DATETIME"
    ELSE "TEXT"

\* line 141: id BIGINT NOT NULL PRIMARY KEY AUTO_INCREMENT
IdColumn == [name |-> <<"i", "d">>, type |-> "BIGINT NOT NULL PRIMARY KEY AUTO_INCREMENT"]

\* lines 131-143: the column definitions of the CREATE TABLE statement
CreateColumnsNoId(data) ==
    [i \in 1..Len(data.columns) |->
        [name |-> data.columns[i].name, type |-> sql_type_for_series(data.columns[i].dtype)]]

CreateColumns(data) ==
    <<IdColumn>> \o
    [i \in 1..Len(data.columns) |->
        [name |-> data.columns[i].name, type |-> sql_type_for_series(data.columns[i].dtype)]]

\* whether MySQL accepts the statement of lines 139-144: it needs a column
\* definition after the comma that follows id, and no two columns of the
\* same name (column names compare without case)
StatementAccepted(columns) ==
    /\ Len(columns) > 1
    /\ \A i, j \in 1..Len(columns) : i # j => Lower(columns[i].name) # Lower(columns[j].name)

\* the database with table name added or replaced
WithTable(db, name, table) ==
    [n \in DOMAIN db \cup {name} |-> IF n = name THEN table ELSE db[n]]

\* create_table_with_pk(engine, table_name, df) 117-153 on database db:
\* check_ok says whether the connection and the existence query go through
\* (121-126), create_ok whether the connection of line 146 does.  Every
\* exception, also that of df.columns on None, is caught at 151-153.
create_table_with_pk(db, table_name, data, check_ok, create_ok) ==
    IF ~check_ok THEN [result |-> FALSE, raised |-> FALSE, database |-> db]
    ELSE IF table_name \in DOMAIN db THEN [result |-> TRUE, raised |-> FALSE, database |-> db]
    ELSE IF data = NoFrame THEN [result |-> FALSE, raised |-> FALSE, database |-> db]
    ELSE IF ~StatementAccepted(CreateColumns(data)) \/ ~create_ok
    THEN [result |-> FALSE, raised |-> FALSE, database |-> db]
    ELSE [result |-> TRUE, raised |-> FALSE,
          database |-> WithTable(db, table_name, [columns |-> CreateColumns(data), rows |-> <<>>])]

\* the columns of a dataset: a column x of every dtype, and columns whose
\* name is that of the key column, in either case
DfColumns ==
    {[name |-> <<"x">>, dtype |-> d] : d \in Dtypes}
    \cup {[name |-> n, dtype |-> "int64"] : n \in {<<"i", "d">>, <<"I", "d">>}}

\* the datasets of up to MaxCols columns with the given rows
Datasets(rows) == UNION {[columns : [1..n -> DfColumns], rows : {rows}] : n \in 0..MaxCols}

TableT == <<"t">>
TableU == <<"u">>

\* tables that exist before the call
ExistingTables ==
    {[columns |-> CreateColumns([columns |-> <<[name |-> <<"x">>, dtype |-> "int64"]>>]),
      rows |-> <<7>>],
     [columns |-> CreateColumns([columns |-> <<[name |-> <<"y">>, dtype |-> "object"]>>]),
      rows |-> <<>>]}

InitCreate ==
    /\ \E S \in SUBSET {TableT, TableU} : database \in [S -> ExistingTables]
    /\ store_df \in Datasets(<<1>>) \cup {NoFrame}
    /\ createCalls = <<>>
    /\ storeCall = [done |-> FALSE]
    /\ tables = {}
    /\ dbCall = [op |-> "none"]
    /\ AppIdle
    /\ PrepIdle
    /\ ChartIdle
    /\ EngineIdle
    /\ QueryIdle
    /\ AccountIdle

\* create_table_with_pk(engine, "t", df)
CreateCall ==
    /\ Len(createCalls) < MaxCalls
    /\ \E check_ok \in BOOLEAN, create_ok \in BOOLEAN :
        LET r == create_table_with_pk(database, TableT, store_df, check_ok, create_ok)
        IN /\ database' = r.database
           /\ createCalls' = Append(createCalls,
                [table_name |-> TableT, check_ok |-> check_ok, before |-> database,
                 after |-> r.database, result |-> r.result, raised |-> r.raised])
    /\ UNCHANGED <<store_df, storeCall>>
    /\ UNCHANGED <<dbVars, appVars, prepVars, chartVars, engineVars, queryVars, accountVars>>

NextCreate == CreateCall

SpecCreate == InitCreate /\ [][NextCreate]_vars

----------------------------------------------------------------------------
(* realdatabase.py 156-213: store_user_data                                 *)

chunk_size == 500    \* line 179

Min(a, b) == IF a < b THEN a ELSE b

\* line 190, range(0, total_rows, chunk_size): the starts of the chunks
ChunkStarts(total_rows) ==
    [k \in 1..((total_rows + chunk_size - 1) \div chunk_size) |-> (k - 1) * chunk_size]

\* line 191, df.iloc[i:i+chunk_size]: rows i .. i+chunk_size-1, counted from 0
ChunkShort(rows, i) == SubSeq(rows, i + 1, Min(i + chunk_size - 1, Len(rows)))

Chunk(rows, i) == SubSeq(rows, i + 1, Min(i + chunk_size, Len(rows)))

\* lines 187-201: what is handed to to_sql, call by call
Chunks(rows) ==
    IF Len(rows) > chunk_size
    THEN [k \in 1..Len(ChunkStarts(Len(rows))) |-> Chunk(rows, ChunkStarts(Len(rows))[k])]
    ELSE <<rows>>

\* the first k of the chunks, one after the other
RECURSIVE Concat(_, _)
Concat(chunks, k) == IF k = 0 THEN <<>> ELSE Concat(chunks, k - 1) \o chunks[k]

\* to_sql(user_table, engine, if_exists='append', index=False): the INSERT
\* names the dataset's columns, which the table must have
AppendAccepted(table, data) ==
    \A i \in 1..Len(data.columns) :
        \E j \in 1..Len(table.columns) :
            Lower(table.columns[j].name) = Lower(data.columns[i].name)

\* store_user_data(df, table_name, user_id) 156-213 on database db.
\* engine_ok: get_engine() returns an engine; check_ok, create_ok: as for
\* create_table_with_pk; good: how many calls of to_sql go through before
\* one raises (each call is one transaction).  Every exception, also that
\* of len(df) on None, is caught at 208-213.
store_user_data(db, data, table_name, uid, engine_ok, check_ok, create_ok, good) ==
    IF ~Truthy(uid)
    THEN [result |-> FALSE, raised |-> FALSE, database |-> db, existing_table |-> existing_table,
          user_table |-> NoValue, chunks |-> <<>>]
    ELSE LET user_table == StoreTable(uid, table_name)
             c == create_table_with_pk(db, user_table, data, check_ok, create_ok)
             failed(d) == [result |-> FALSE, raised |-> FALSE, database |-> d,
                           existing_table |-> user_table, user_table |-> user_table,
                           chunks |-> <<>>]
         IN IF ~engine_ok THEN failed(db)
            ELSE IF ~c.result THEN failed(c.database)
            ELSE IF data = NoFrame THEN failed(c.database)
            ELSE IF Len(data.rows) = 0
            THEN [result |-> TRUE, raised |-> FALSE, database |-> c.database,
                  existing_table |-> user_table, user_table |-> user_table, chunks |-> <<>>]
            ELSE LET chunks == Chunks(data.rows)
                     table == c.database[user_table]
                     done == IF AppendAccepted(table, data) THEN Min(good, Len(chunks)) ELSE 0
                 IN [result |-> done = Len(chunks), raised |-> FALSE,
                     database |-> WithTable(c.database, user_table,
                                     [table EXCEPT !.rows = @ \o Concat(chunks, done)]),
                     existing_table |-> user_table, user_table |-> user_table,
                     chunks |-> [k \in 1..done |->
                                    <<chunks[k][1] - 1, chunks[k][Len(chunks[k])]>>]]

\* the datasets stored: one column that the tables below may have or lack,
\* rows 1..n
StoreDatasets ==
    {[columns |-> <<[name |-> <<"x">>, dtype |-> "int64"]>>, rows |-> [i \in 1..n |-> i]] :
        n \in 0..MaxRowCount}

StoreUserIds == {NoValue, <<>>, <<"u">>}

InitStore ==
    /\ database \in {<<>>} \cup
            {[n \in {TableT, FullTableName(<<"u">>, SalesData)} |-> table] :
                table \in ExistingTables}
    /\ store_df \in StoreDatasets
    /\ createCalls = <<>>
    /\ storeCall = [done |-> FALSE]
    /\ user_id \in StoreUserIds
    /\ existing_table \in {NoValue, TableT}
    /\ user_authenticated = FALSE
    /\ user_identifier = NoValue
    /\ processed_df = NoValue
    /\ user_tables = <<>>
    /\ new_user_id = NoValue
    /\ data_stored = FALSE
    /\ current_dataset = NoValue
    /\ gemini_key = TRUE
    /\ rerun = FALSE
    /\ run = [chatbot |-> FALSE]
    /\ persisted = FALSE
    /\ stored = {}
    /\ logins = 0
    /\ tables = {}
    /\ dbCall = [op |-> "none"]
    /\ PrepIdle
    /\ ChartIdle
    /\ EngineIdle
    /\ QueryIdle
    /\ AccountIdle

\* store_user_data(df, "sales_data", user_id)
StoreCall ==
    /\ ~storeCall.done
    /\ \E engine_ok \in BOOLEAN, check_ok \in BOOLEAN, create_ok \in BOOLEAN,
          good \in 0..Len(ChunkStarts(MaxRowCount)) :
        LET r == store_user_data(database, store_df, SalesData, user_id,
                                 engine_ok, check_ok, create_ok, good)
        IN /\ database' = r.database
           /\ existing_table' = r.existing_table
           /\ storeCall' = [done |-> TRUE, before |-> database, user_table |-> r.user_table,
                            result |-> r.result, raised |-> r.raised, chunks |-> r.chunks]
    /\ UNCHANGED <<store_df, createCalls>>
    /\ UNCHANGED <<user_authenticated, user_id, user_identifier, processed_df, user_tables,
                   new_user_id, data_stored, current_dataset,
                   gemini_key, rerun, run, persisted, stored, logins>>
    /\ UNCHANGED <<dbVars, prepVars, chartVars, engineVars, queryVars, accountVars>>

NextStore == StoreCall

SpecStore == InitStore /\ [][NextStore]_vars

----------------------------------------------------------------------------
(* realdatabase.py 216-230: execute_sql_query, and main.py 444-460: the     *)
(* Analyze button of the chatbot                                            *)

\* how far a call of execute_sql_query gets:
\*   "no_engine"       get_engine() is None (219-220)
\*   "connect_failed"  engine.connect() raises (222)
\*   "execute_failed"  conn.execute raises (223)
\*   "no_result_set"   the statement runs but returns no rows to fetch, so
\*                     result.fetchall() raises (224)
\*   "ok"              the rows are fetched
QueryOutcomes == {"no_engine", "connect_failed", "execute_failed", "no_result_set", "ok"}

\* what the server answers to a statement that returns rows: result.keys()
\* and result.fetchall(); a row is known by its number
Answers ==
    UNION {[keys : [1..n -> Columns], rows : {[i \in 1..k |-> i] : k \in 0..MaxRows}] :
           n \in 1..MaxCols}

\* line 224: pd.DataFrame(result.fetchall(), columns=result.keys())
DataFrame(answer) ==
    [columns |-> answer.keys, has_rows |-> Len(answer.rows) > 0, rows |-> answer.rows]

\* execute_sql_query(sql_query) 216-230: the value it returns, and whether
\* an exception leaves it; every failure is caught at 228-230
execute_sql_query(outcome, answer) ==
    IF outcome = "ok"
    THEN [raised |-> FALSE, value |-> DataFrame(answer)]
    ELSE [raised |-> FALSE, value |-> NoFrame]

\* text_to_sql_final 212-243 returns None, or the text the model answered
\* with its code fence stripped, which may be empty
GeneratedSql == {NoValue, <<>>, <<"S", "E", "L", "E", "C", "T">>}

\* main.py line 452: results_df is not None and not results_df.empty
ResultsShownNotNone(results) == results # NoFrame

ResultsShown(results) == results # NoFrame /\ ~IsEmpty(results)

InitQuery ==
    /\ queryCall = [done |-> FALSE]
    /\ chat = [clicked |-> FALSE]
    /\ tables = {}
    /\ dbCall = [op |-> "none"]
    /\ AppIdle
    /\ PrepIdle
    /\ ChartIdle
    /\ EngineIdle
    /\ StoreIdle
    /\ AccountIdle

\* a call of execute_sql_query by any caller (such as the SHOW COLUMNS call
\* of lines 428-431)
ExecuteCall ==
    /\ ~queryCall.done /\ ~chat.clicked
    /\ \E outcome \in QueryOutcomes :
        \E answer \in IF outcome = "ok" THEN Answers ELSE {NoValue} :
            LET r == execute_sql_query(outcome, answer)
            IN queryCall' = [done |-> TRUE, outcome |-> outcome, answer |-> answer,
                             raised |-> r.raised, value |-> r.value]
    /\ UNCHANGED <<chat, dbVars, appVars, prepVars, chartVars, engineVars, storeVars, accountVars>>

\* main.py 444-460: a click on Analyze with user_question typed in
AnalyzeRun ==
    /\ ~queryCall.done /\ ~chat.clicked
    /\ \E question \in Questions, sql_query \in GeneratedSql, outcome \in QueryOutcomes :
        \E answer \in IF outcome = "ok" THEN Answers ELSE {NoValue} :
            IF question = <<>>
            THEN /\ chat' = [clicked |-> TRUE, called |-> FALSE, shown |-> FALSE,
                             message |-> "warning: Please enter a question"]
                 /\ UNCHANGED <<queryCall, chartVars>>
            ELSE IF ~Truthy(sql_query)
            THEN /\ chat' = [clicked |-> TRUE, called |-> FALSE, shown |-> FALSE,
                             message |-> "error: Could not generate SQL query"]
                 /\ user_question' = question
                 /\ UNCHANGED <<queryCall, results_df, axes, charts>>
            ELSE LET r == execute_sql_query(outcome, answer)
                 IN /\ queryCall' = [done |-> TRUE, outcome |-> outcome, answer |-> answer,
                                     raised |-> r.raised, value |-> r.value]
                    /\ user_question' = question
                    /\ IF r.raised
                       THEN /\ chat' = [clicked |-> TRUE, called |-> TRUE, shown |-> FALSE,
                                        message |-> "exception"]
                            /\ UNCHANGED <<results_df, axes, charts>>
                       ELSE IF ResultsShown(r.value)
                       THEN /\ chat' = [clicked |-> TRUE, called |-> TRUE, shown |-> TRUE,
                                        message |-> "results"]
                            /\ results_df' = r.value
                            /\ charts' = [done |-> TRUE,
                                          requests |-> ChartRequests(r.value, question)]
                            /\ axes' = IF IsEmpty(r.value) THEN axes
                                       ELSE auto_detect_axes(r.value)
                       ELSE /\ chat' = [clicked |-> TRUE, called |-> TRUE, shown |-> FALSE,
                                        message |-> "error: No results returned from query"]
                            /\ UNCHANGED <<results_df, axes, charts>>
    /\ UNCHANGED <<dbVars, appVars, prepVars, engineVars, storeVars, accountVars>>

NextQuery == ExecuteCall \/ AnalyzeRun

SpecQuery == InitQuery /\ [][NextQuery]_vars

----------------------------------------------------------------------------
(* main.py 549-566: the new-ID path of authenticate_user, taken by several  *)
(* users, each in a session of their own.  The session variables show the  *)
(* session of the user who came last.                                       *)

InitAccounts ==
    /\ typed \in [1..MaxLogins -> UserNames \X UserEmails]
    /\ accounts = <<>>
    /\ tables = {}
    /\ dbCall = [op |-> "none"]
    /\ AppIdle
    /\ PrepIdle
    /\ ChartIdle
    /\ EngineIdle
    /\ StoreIdle
    /\ QueryIdle

\* the next user opens the page, types name and email, leaves the Existing
\* ID box empty and clicks the button: lines 549-566, or the error of line
\* 568 when one of the two is empty
CreateNewId ==
    /\ Len(accounts) < MaxLogins
    /\ LET user_name == typed[Len(accounts) + 1][1]
           user_email == typed[Len(accounts) + 1][2]
       IN IF user_name # <<>> /\ user_email # <<>>
          THEN LET identifier == UserIdentifier(user_name, user_email)
                   user_hash == UserHash(identifier)
                   new_id == FullTableName(user_hash, SalesData)
               IN /\ user_id' = user_hash
                  /\ user_authenticated' = TRUE
                  /\ user_identifier' = identifier
                  /\ new_user_id' = new_id
                  /\ existing_table' = new_id
                  /\ user_tables' = <<<<SalesData, new_id>>>>
                  /\ rerun' = TRUE
                  /\ accounts' = Append(accounts,
                        [created |-> TRUE, user_identifier |-> identifier,
                         user_id |-> user_hash, new_user_id |-> new_id])
          ELSE /\ ResetSession
               /\ rerun' = FALSE
               /\ accounts' = Append(accounts, [created |-> FALSE])
    /\ processed_df' = NoValue /\ data_stored' = FALSE /\ current_dataset' = NoValue
    /\ UNCHANGED <<typed, gemini_key, run, persisted, stored, logins>>
    /\ UNCHANGED <<dbVars, prepVars, chartVars, engineVars, storeVars, queryVars>>

NextAccounts == CreateNewId

SpecAccounts == InitAccounts /\ [][NextAccounts]_vars

----------------------------------------------------------------------------
(* Claims about the script's session (SpecApp) *)

\* C1: a run of the script reaches show_chatbot_interface only if, since the
\* login, store_user_data has returned True or the login verified an
\* existing table.
C1_ChatbotOnlyAfterPersistence == [][run'.chatbot => persisted]_vars

\* C2: while a user is logged in, existing_table and every value of
\* user_tables are user_id + '_' + <a table name>, and every table
\* store_user_data created or appended to has a name starting with the
\* user_id + '_' of the user it was called for.
C2_UserHashPrefix ==
    /\ user_authenticated =>
        /\ StartsWith(existing_table, user_id \o <<Underscore>>)
        /\ \A v \in DictValues(user_tables) : StartsWith(v, user_id \o <<Underscore>>)
    /\ \A p \in stored : StartsWith(p[2], p[1] \o <<Underscore>>)

\* a new account has clicked Process Data and the dataset was stored
C2_Witness ==
    /\ user_authenticated
    /\ data_stored
    /\ new_user_id # NoValue
    /\ \E p \in stored : p[1] = user_id /\ p[2] \in tables
    /\ Len(user_tables) > 1

----------------------------------------------------------------------------
(* Claims about preprocessing (SpecPrep) *)

\* C4: hybrid_preprocessing runs the generated code on the pipeline's output;
\* when code generation returned None or an empty text, or when running the
\* code raised, the result is exactly the pipeline's output, and no exception
\* reaches the caller.
C4_FallbackIsPipelineOutput ==
    hybrid.done =>
        /\ ~hybrid.propagated
        /\ (hybrid.generated_code \notin {NoValue, <<>>}
                => hybrid.executed_on = Pipeline(hybrid.input).output)
        /\ ((hybrid.generated_code \in {NoValue, <<>>} \/ hybrid.raised)
                => hybrid.result = Pipeline(hybrid.input).output)

\* the cells of the rows left after the low-missing drop that the fill is about
FilledCells == {<<i, c>> \in (1..NumRows(pipeline.dropped)) \X pipeline.high :
                    IsNa(pipeline.dropped.dtypes[c], pipeline.dropped.rows[i][c])}

\* v is the k-th smallest of vals
IsKthSmallest(vals, k, v) ==
    /\ \E i \in 1..Len(vals) : vals[i] = v
    /\ Cardinality({i \in 1..Len(vals) : vals[i] < v}) < k
    /\ Cardinality({i \in 1..Len(vals) : vals[i] <= v}) >= k

\* f is the median of vals: the mean of the two middle values
IsMedianOf(vals, f) ==
    \E a \in NumberValues, b \in NumberValues :
        /\ IsKthSmallest(vals, (Len(vals) + 1) \div 2, a)
        /\ IsKthSmallest(vals, (Len(vals) \div 2) + 1, b)
        /\ 2 * f = a + b

\* f is the mode of vals: a most frequent value, the first in sort order
IsModeOf(vals, f) ==
    \E k \in 1..Len(ObjectValues) :
        /\ f = ObjectValues[k]
        /\ Occurrences(vals, f) > 0
        /\ \A j \in 1..Len(ObjectValues) :
            /\ Occurrences(vals, ObjectValues[j]) <= Occurrences(vals, f)
            /\ Occurrences(vals, ObjectValues[j]) = Occurrences(vals, f) => k <= j

C6_NoDuplicateNoMissing ==
    pipeline.done =>
        /\ \A i, j \in 1..NumRows(pipeline.output) :
                pipeline.output.rows[i] = pipeline.output.rows[j] => i = j
        /\ \A i \in 1..NumRows(pipeline.output), c \in 1..NumCols(pipeline.output) :
                ~IsNa(pipeline.output.dtypes[c], pipeline.output.rows[i][c])
        /\ pipeline.caller_df = raw_df

----------------------------------------------------------------------------
(* Claims about the chart choice (SpecChart) *)

Least(S) == CHOOSE m \in S : \A j \in S : m <= j

\* the positions of the columns whose lowercased name contains keyword
ColumnsWith(keyword) ==
    {i \in 1..Len(results_df.columns) : Contains(Lower(results_df.columns[i].name), keyword)}

C8_ChartTypeAsDescribed ==
    charts.done =>
        IF IsEmpty(results_df) THEN charts.requests = <<>>
        ELSE /\ Len(charts.requests) = 1
             /\ LET found == auto_detect_axes(results_df)
                    timely == \/ ContainsAny(Lower(found.x_axis), time_keywords)
                              \/ ContainsAny(Lower(user_question), time_keywords)
                              \/ ContainsAny(Lower(user_question), trend_keywords)
                IN charts.requests[1].chart_type =
                        IF found.y_axis = NoValue THEN "Histogram"
                        ELSE IF timely THEN "Line Chart"
                        ELSE "Bar Chart"

----------------------------------------------------------------------------
(* Claims about get_engine (SpecEngine) *)

\* the order the claim fixes: the CA candidates that exist, in list order,
\* then generic SSL, then no SSL
ClaimedOrder ==
    SelectSeq(ca_candidates,
              LAMBDA path : \E i \in 1..Len(ca_candidates) :
                                ca_candidates[i] = path /\ ca_exists[i])
        \o <<"generic ssl", "no ssl">>

Returned == engine_pc.at \in {"returned", "returned_from_cache"}

\* C10: the attempts made are the claimed order from its start, with no
\* attempt after one that succeeded (so no SSL comes only after every SSL
\* attempt failed); the engine returned is that of the first attempt that
\* succeeds; None is returned only when the secret is missing or every
\* attempt of the order failed; the call never ends in an exception.
C10_EngineOrder ==
    /\ Len(attempts) <= Len(ClaimedOrder)
    /\ attempts = SubSeq(ClaimedOrder, 1, Len(attempts))
    /\ \A j \in 1..(Len(attempts) - 1) : ~connects[attempts[j]]
    /\ engine_pc.at # "raised"
    /\ ~secrets_url => attempts = <<>>
    /\ Returned =>
        IF \E j \in 1..Len(ClaimedOrder) : connects[ClaimedOrder[j]] /\ secrets_url
        THEN /\ engine = <<"engine", ClaimedOrder[Least({j \in 1..Len(ClaimedOrder) :
                                                            connects[ClaimedOrder[j]]})]>>
             /\ engine = <<"engine", attempts[Len(attempts)]>>
        ELSE /\ engine = NoValue
             /\ secrets_url => attempts = ClaimedOrder
    /\ ~Returned => engine = NoValue

\* the connection without SSL was returned after two or more SSL attempts failed
C10_Witness ==
    /\ Returned
    /\ engine = <<"engine", "no ssl">>
    /\ Len(attempts) > 2

----------------------------------------------------------------------------
(* Claims about the database-module calls (SpecDb) *)

\* C3: delete_all_user_tables(user_id) leaves every table whose name does not
\* start with user_id followed by an underscore in the database.
C3_DeleteOnlyPrefixed ==
    dbCall.op = "delete_all" =>
        \A t \in dbCall.before :
            ~StartsWith(t, dbCall.user_id \o <<Underscore>>) => t \in tables

\* C9: verify_user_table_exists returns True exactly when a table named
\* user_hash + '_' + table_name exists (and False when the query fails).
C9_VerifyExact ==
    dbCall.op = "verify" =>
        (dbCall.result <=>
            (dbCall.up /\ FullTableName(dbCall.user_hash, dbCall.table_name) \in dbCall.before))

\* C11: execute_sql_query never raises; it returns the table of the fetched
\* rows when the query succeeds and None when there is no engine or the
\* connection, the execution or the fetch fails.  The chatbot shows results
\* only for a returned value that is neither None nor empty, and reports an
\* error for every other returned value.
C11_QueryResultOrNone ==
    /\ queryCall.done =>
        /\ ~queryCall.raised
        /\ queryCall.outcome = "ok" =>
            /\ queryCall.value # NoFrame
            /\ queryCall.value.columns = queryCall.answer.keys
            /\ queryCall.value.rows = queryCall.answer.rows
        /\ queryCall.outcome # "ok" => queryCall.value = NoFrame
    /\ (chat.clicked /\ chat.called) =>
        /\ chat.shown <=> (queryCall.value # NoFrame /\ Len(queryCall.value.rows) > 0)
        /\ chat.shown => charts.done /\ Len(charts.requests) = 1 /\ results_df = queryCall.value
        /\ ~chat.shown =>
            /\ chat.message = "error: No results returned from query"
            /\ ~charts.done
    /\ (chat.clicked /\ ~chat.called) => ~chat.shown /\ ~charts.done

\* a query that succeeded without rows: the chatbot reports the error
C11_Witness ==
    /\ chat.clicked /\ chat.called
    /\ queryCall.outcome = "ok"
    /\ queryCall.value # NoFrame
    /\ Len(queryCall.value.rows) = 0
    /\ ~chat.shown

----------------------------------------------------------------------------
(* Claims about create_table_with_pk (SpecCreate) *)

\* the call c created the table: the key column id first, then one column
\* per dataset column, no rows, every other table as it was
Created(c) ==
    /\ store_df # NoFrame
    /\ DOMAIN c.after = DOMAIN c.before \cup {c.table_name}
    /\ \A n \in DOMAIN c.before : c.after[n] = c.before[n]
    /\ LET columns == c.after[c.table_name].columns
       IN /\ Len(columns) = Len(store_df.columns) + 1
          /\ columns[1].name = <<"i", "d">>
          /\ columns[1].type = "BIGINT NOT NULL PRIMARY KEY AUTO_INCREMENT"
          /\ \A k \in 1..Len(store_df.columns) : columns[k + 1].name = store_df.columns[k].name
    /\ c.after[c.table_name].rows = <<>>

\* what every call does besides its answer on an existing table
CreateContract(i) ==
    LET c == createCalls[i]
    IN /\ ~c.raised
       /\ c.table_name \in DOMAIN c.before => c.after = c.before
       /\ c.table_name \notin DOMAIN c.before =>
            IF c.result THEN Created(c) ELSE c.after = c.before
       /\ (i > 1 /\ c.table_name \in DOMAIN createCalls[i - 1].after) =>
            c.after = createCalls[i - 1].after

----------------------------------------------------------------------------
(* Claims about store_user_data (SpecStore) *)

\* the rows of table name in db; none when there is no such table
RowsIn(db, name) == IF name \in DOMAIN db THEN db[name].rows ELSE <<>>

\* the chunk bounds <<from, to>> (rows from .. to-1, counted from 0) start
\* at 0, follow each other without gap or overlap, are chunk_size rows wide
\* except the last, and end at n
CoversRows(chunks, n) ==
    /\ Len(chunks) = (n + chunk_size - 1) \div chunk_size
    /\ \A k \in 1..Len(chunks) :
        /\ chunks[k][1] = (k - 1) * chunk_size
        /\ chunks[k][2] = IF k < Len(chunks) THEN chunks[k + 1][1] ELSE n
        /\ chunks[k][2] > chunks[k][1]
        /\ chunks[k][2] - chunks[k][1] <= chunk_size

\* C13: store_user_data never raises; with an empty user_id it returns
\* False and leaves the database alone; when it returns True the table
\* holds its former rows followed by every row of the dataset once, in the
\* dataset's order, appended in chunks that cover rows 0..n-1 without gap
\* or overlap; when it returns False the rows appended are the rows of the
\* chunks that went through, a prefix of the dataset.
C13_EveryRowOnce ==
    storeCall.done =>
        LET n == Len(store_df.rows)
            t == storeCall.user_table
            old == RowsIn(storeCall.before, t)
            new == RowsIn(database, t)
            added == SubSeq(new, Len(old) + 1, Len(new))
        IN /\ ~storeCall.raised
           /\ ~Truthy(user_id) =>
                /\ ~storeCall.result
                /\ database = storeCall.before
           /\ Truthy(user_id) =>
                /\ \A name \in DOMAIN storeCall.before :
                    /\ name \in DOMAIN database
                    /\ name # t => database[name] = storeCall.before[name]
                /\ Len(new) >= Len(old)
                /\ SubSeq(new, 1, Len(old)) = old
                /\ Len(added) <= n
                /\ added = SubSeq(store_df.rows, 1, Len(added))
                /\ Len(added) = n \/ Len(added) % chunk_size = 0
                /\ storeCall.result =>
                    /\ added = store_df.rows
                    /\ CoversRows(storeCall.chunks, n)

\* a dataset of more than two chunks, the last one short, stored after the
\* rows the table already had
C13_Witness ==
    /\ storeCall.done
    /\ storeCall.result
    /\ Len(store_df.rows) > 2 * chunk_size
    /\ Len(store_df.rows) % chunk_size # 0
    /\ Len(RowsIn(storeCall.before, storeCall.user_table)) > 0
    /\ Len(storeCall.chunks) = 3

----------------------------------------------------------------------------
(* Claims about new accounts (SpecAccounts) *)

\* C14: two users who typed different (name, email) pairs on the
\* create-new-ID path get different identifiers to hash, and so different
\* table name prefixes.
C14_DistinctNamespaces ==
    \A i, j \in 1..Len(accounts) :
        (accounts[i].created /\ accounts[j].created /\ typed[i] # typed[j]) =>
            accounts[i].user_identifier # accounts[j].user_identifier

====
